---------------------------- MODULE Spec2Model ----------------------------
(***************************************************************************)
(* Model of scripts/build_barcode_status.js: the script that reads an     *)
(* uptime summary (history/summary.json) and writes a static status page.  *)
(*                                                                         *)
(* JavaScript values are records [t, n, s]: t is the kind of value, n the *)
(* numeric payload (a decimal number scaled by Scale, or 0/1 for a         *)
(* boolean) and s the characters of a string.  Unused fields are 0 / <<>>. *)
(***************************************************************************)
EXTENDS Integers, Sequences, FiniteSets

\* Longest string over Alphabet given to percentToNumber.
MaxLen == 4
\* Longest list of services in the summary document.
MaxServices == 3

\* statusClass thresholds.
OkThreshold == 99
WarnThreshold == 95

RECURSIVE Pow10(_)
Pow10(k) == IF k = 0 THEN 1 ELSE 10 * Pow10(k - 1)

\* A JavaScript number x is the integer x * Scale: every decimal literal of
\* at most MaxLen characters (at most MaxLen - 1 digits after the point) is
\* represented exactly.
Scale == Pow10(MaxLen - 1)

Num(n)   == [t |-> "number", n |-> n, s |-> <<>>]
NaN      == [t |-> "nan", n |-> 0, s |-> <<>>]
Null     == [t |-> "null", n |-> 0, s |-> <<>>]
Undef    == [t |-> "undefined", n |-> 0, s |-> <<>>]
Bool(b)  == [t |-> "boolean", n |-> IF b THEN 1 ELSE 0, s |-> <<>>]
Str(s)   == [t |-> "string", n |-> 0, s |-> s]
Obj      == [t |-> "object", n |-> 0, s |-> <<>>]
\* "Not computed yet" (a local that has not been assigned).
Unset    == [t |-> "unset", n |-> 0, s |-> <<>>]

\* Dec(a, b) is the number a.bb (b in hundredths), e.g. Dec(98, 99) = 98.99.
Dec(a, b) == Num(a * Scale + b * (Scale \div 100))

TypeOf(v) == IF v.t = "nan" THEN "number" ELSE v.t

\* ToBoolean: !value is TRUE exactly for these.
Falsy(v) ==
    \/ v.t \in {"null", "undefined", "nan"}
    \/ v.t = "boolean" /\ v.n = 0
    \/ v.t = "number" /\ v.n = 0
    \/ v.t = "string" /\ v.s = <<>>

Digits == {"0", "1", "2", "3", "4", "5", "6", "7", "8", "9"}

DigitVal(c) ==
    CASE c = "0" -> 0 [] c = "1" -> 1 [] c = "2" -> 2 [] c = "3" -> 3
      [] c = "4" -> 4 [] c = "5" -> 5 [] c = "6" -> 6 [] c = "7" -> 7
      [] c = "8" -> 8 [] c = "9" -> 9

RECURSIVE DigitsVal(_)
DigitsVal(ds) ==
    IF ds = <<>> THEN 0
    ELSE 10 * DigitsVal(SubSeq(ds, 1, Len(ds) - 1)) + DigitVal(ds[Len(ds)])

AllDigits(ds) == \A i \in 1..Len(ds) : ds[i] \in Digits

\* Index of the first occurrence of c in s, 0 when there is none.
IndexOf(s, c) ==
    IF \E i \in 1..Len(s) : s[i] = c
    THEN CHOOSE i \in 1..Len(s) : s[i] = c /\ \A j \in 1..(i - 1) : s[j] # c
    ELSE 0

\* String.prototype.replace(c, ""): removes the FIRST occurrence of c.
Replace(s, c) ==
    LET i == IndexOf(s, c)
    IN  IF i = 0 THEN s ELSE SubSeq(s, 1, i - 1) \o SubSeq(s, i + 1, Len(s))

\* String(value).  (A non-NaN number never reaches String in percentToNumber,
\* and the display fields of the modelled inputs are strings or missing.)
ToString(v) ==
    CASE v.t = "string"    -> v.s
      [] v.t = "null"      -> <<"n", "u", "l", "l">>
      [] v.t = "undefined" -> <<"u", "n", "d", "e", "f", "i", "n", "e", "d">>
      [] v.t = "boolean"   -> IF v.n = 1 THEN <<"t", "r", "u", "e">>
                              ELSE <<"f", "a", "l", "s", "e">>
      [] v.t = "nan"       -> <<"N", "a", "N">>
      [] v.t = "object"    -> <<"[", "o", "b", "j", "e", "c", "t", " ",
                                "O", "b", "j", "e", "c", "t", "]">>

\* An unsigned decimal literal: digits, optionally one ".", at least one digit.
\* (A string of at most MaxLen characters has at most MaxLen - 1 digits after
\* the point, which is what Scale holds.)
UnsignedToNumber(s) ==
    LET dot  == IndexOf(s, ".")
        int  == IF dot = 0 THEN s ELSE SubSeq(s, 1, dot - 1)
        frac == IF dot = 0 THEN <<>> ELSE SubSeq(s, dot + 1, Len(s))
    IN  IF AllDigits(int) /\ AllDigits(frac) /\ Len(int) + Len(frac) >= 1
           /\ Len(frac) <= MaxLen - 1
        THEN Num(DigitsVal(int) * Scale
                 + DigitsVal(frac) * (Scale \div Pow10(Len(frac))))
        ELSE NaN

\* Number(string): "" is 0, a signed decimal literal is its value, anything
\* else is NaN.  (The forms of the numeric-string grammar that need
\* characters outside Alphabet - white space, exponents, hex, Infinity -
\* are not modelled.)
StringToNumber(s) ==
    IF s = <<>> THEN Num(0)
    ELSE IF Head(s) = "-"
         THEN LET u == UnsignedToNumber(Tail(s))
              IN  IF u.t = "nan" THEN NaN ELSE Num(0 - u.n)
    ELSE IF Head(s) = "+" THEN UnsignedToNumber(Tail(s))
    ELSE UnsignedToNumber(s)

\* x || 0
OrZero(x) == IF Falsy(x) THEN Num(0) ELSE x

\* percentToNumber without the "|| 0" fallback.
percentToNumber_NoFallback(value) ==
    IF Falsy(value) THEN Num(0)
    ELSE IF TypeOf(value) = "number" THEN value
    ELSE StringToNumber(Replace(ToString(value), "%"))

\* percentToNumber with the result forced into [0, 100].
percentToNumber_Clamped(value) ==
    LET r == IF Falsy(value) THEN Num(0)
             ELSE IF TypeOf(value) = "number" THEN value
             ELSE OrZero(StringToNumber(Replace(ToString(value), "%")))
    IN  IF r.n < 0 THEN Num(0)
        ELSE IF r.n > 100 * Scale THEN Num(100 * Scale)
        ELSE r

percentToNumber(value) ==
    IF Falsy(value) THEN Num(0)
    ELSE IF TypeOf(value) = "number" THEN value
    ELSE OrZero(StringToNumber(Replace(ToString(value), "%")))

\* uptime >= k (FALSE when uptime is NaN).
Ge(uptime, k) == uptime.t = "number" /\ uptime.n >= k * Scale

\* statusClass with the first comparison strict.
statusClass_Strict(uptime) ==
    IF uptime.t = "number" /\ uptime.n > OkThreshold * Scale THEN "ok"
    ELSE IF Ge(uptime, WarnThreshold) THEN "warn"
    ELSE "down"

statusClass(uptime) ==
    IF Ge(uptime, OkThreshold) THEN "ok"
    ELSE IF Ge(uptime, WarnThreshold) THEN "warn"
    ELSE "down"

\* statusLabel without the second comparison: every other string is "DOWN".
statusLabel_AnyStringDown(status) ==
    IF status = Str(<<"u", "p">>) THEN "UP"
    ELSE IF status.t = "string" THEN "DOWN"
    ELSE "DEGRADED"

statusLabel(status) ==
    IF status = Str(<<"u", "p">>) THEN "UP"
    ELSE IF status = Str(<<"d", "o", "w", "n">>) THEN "DOWN"
    ELSE "DEGRADED"

\* Number.prototype.toFixed(2) of the decimal value: the count of hundredths
\* nearest to |value|, the larger one on a tie, with the sign kept.  (The
\* script prints this count as digits; a tie of the decimal value is decided
\* by the binary value of the double, which is not modelled.)
toFixed2(value) ==
    IF value.t = "nan" THEN [nan |-> TRUE, cents |-> 0]
    ELSE LET unit == Scale \div 100
             mag  == IF value.n < 0 THEN 0 - value.n ELSE value.n
             c    == (2 * mag + unit) \div (2 * unit)
         IN  [nan |-> FALSE, cents |-> IF value.n < 0 THEN 0 - c ELSE c]

\* One entry of bars after the map of lines 60-68.
Segment(label, value) ==
    [label |-> label, value |-> value, class |-> statusClass(value),
     text |-> toFixed2(value)]

\* Throws with a missing uptimeDay throwing too (a method called on it).
Throws_MissingField(service) ==
    \/ service.t \in {"null", "undefined"}
    \/ service.uptimeDay = Undef

\* Reading a property of null or undefined throws a TypeError.
Throws(service) == service.t \in {"null", "undefined"}

\* renderService with the pill class taken from the worst of the four bars.
renderService_WorstBar(service) ==
    LET uptimeDay   == percentToNumber(service.uptimeDay)
        uptimeWeek  == percentToNumber(service.uptimeWeek)
        uptimeMonth == percentToNumber(service.uptimeMonth)
        uptimeYear  == percentToNumber(service.uptimeYear)
        all == {uptimeDay, uptimeWeek, uptimeMonth, uptimeYear}
        worst == CHOOSE v \in all : \A w \in all : v.n <= w.n
    IN  [title  |-> ToString(service.name),
         class  |-> statusClass(worst),
         pill   |-> statusLabel(service.status),
         bars   |-> << Segment("24h", uptimeDay), Segment("7d", uptimeWeek),
                       Segment("30d", uptimeMonth), Segment("365d", uptimeYear) >>,
         target |-> ToString(service.url),
         uptime |-> ToString(service.uptime)]

\* The card of one service (defined when ~Throws(service)).
renderService(service) ==
    LET uptimeDay   == percentToNumber(service.uptimeDay)
        uptimeWeek  == percentToNumber(service.uptimeWeek)
        uptimeMonth == percentToNumber(service.uptimeMonth)
        uptimeYear  == percentToNumber(service.uptimeYear)
    IN  [title  |-> ToString(service.name),
         class  |-> statusClass(uptimeDay),
         pill   |-> statusLabel(service.status),
         bars   |-> << Segment("24h", uptimeDay), Segment("7d", uptimeWeek),
                       Segment("30d", uptimeMonth), Segment("365d", uptimeYear) >>,
         target |-> ToString(service.url),
         uptime |-> ToString(service.uptime)]

-----------------------------------------------------------------------------
(***************************************************************************)
(* Inputs.                                                                 *)
(***************************************************************************)
\* Characters of the strings given to percentToNumber.
Alphabet == {"0", "5", "9", ".", "%", "-", "a"}

RECURSIVE StringsUpTo(_)
StringsUpTo(k) ==
    IF k = 0 THEN {<<>>}
    ELSE LET shorter == StringsUpTo(k - 1)
         IN  shorter \cup {Append(s, c) : s \in {x \in shorter : Len(x) = k - 1},
                                          c \in Alphabet}

\* JSON numbers: the boundaries of statusClass, values outside [0, 100].
Numbers ==
    {Num(0), Dec(40, 0), Dec(94, 99), Dec(95, 0), Dec(98, 99), Dec(99, 0),
     Dec(99, 95), Dec(100, 0), Dec(150, 0), Num(0 - 5 * Scale)}

\* Values of the status field.
Statuses ==
    {Str(<<"u", "p">>), Str(<<"d", "o", "w", "n">>),
     Str(<<"d", "e", "g", "r", "a", "d", "e", "d">>), Str(<<"U", "P">>)}

\* Every value a field of a parsed JSON record can hold in the model
\* (Undef: the field is missing).
Values ==
    {Null, Undef, Bool(TRUE), Bool(FALSE), Obj} \cup Numbers \cup Statuses
    \cup {Str(s) : s \in StringsUpTo(MaxLen)}

\* A parsed JSON object with the fields renderService reads.
Service(name, status, day, week, month, year) ==
    [t |-> "object", name |-> name,
     url |-> IF name = Undef THEN Undef ELSE Str(<<"h">>),
     status |-> status,
     uptimeDay |-> day, uptimeWeek |-> week, uptimeMonth |-> month,
     uptimeYear |-> year,
     uptime |-> IF name = Undef THEN Undef ELSE Str(<<"9", "9", "%">>)]

\* null as an element of the list.
NullService ==
    [t |-> "null", name |-> Undef, url |-> Undef, status |-> Undef,
     uptimeDay |-> Undef, uptimeWeek |-> Undef, uptimeMonth |-> Undef,
     uptimeYear |-> Undef, uptime |-> Undef]

Pct(a, b) == Str(<<a, b, "%">>)

\* Field values of the records rendered one at a time.
CardUptimes ==
    {Undef, Dec(99, 95), Dec(98, 99), Dec(40, 0), Dec(150, 0), Pct("9", "9"),
     Pct("9", "5"), Str(<<"a">>)}
CardStatuses == {Str(<<"u", "p">>), Str(<<"d", "o", "w", "n">>), Str(<<"U", "P">>), Undef, Null}
CardNames == {Str(<<"A">>), Undef}

CardServices ==
    {Service(nm, st, d, w, m, y) :
        nm \in CardNames, st \in CardStatuses,
        d \in CardUptimes, w \in CardUptimes, m \in CardUptimes, y \in CardUptimes}

\* Records of the summary documents: healthy, down, all fields missing,
\* percentages as strings, malformed percentages with an unknown status.
PageServices ==
    {Service(Str(<<"A">>), Str(<<"u", "p">>), Dec(99, 95), Dec(99, 90), Dec(99, 80), Dec(99, 50)),
     Service(Str(<<"B">>), Str(<<"d", "o", "w", "n">>), Dec(40, 0), Dec(98, 99), Dec(95, 0), Dec(99, 0)),
     Service(Undef, Undef, Undef, Undef, Undef, Undef),
     Service(Str(<<"C">>), Str(<<"u", "p">>), Pct("9", "9"), Pct("9", "5"), Str(<<"9", ".", "5", "%">>), Str(<<"%">>)),
     Service(Str(<<"D">>), Str(<<"U", "P">>), Str(<<"a">>), Obj, Bool(TRUE), Null)}

RECURSIVE ListsUpTo(_, _)
ListsUpTo(S, k) ==
    IF k = 0 THEN {<<>>}
    ELSE LET shorter == ListsUpTo(S, k - 1)
         IN  shorter \cup {Append(l, x) : l \in {y \in shorter : Len(y) = k - 1},
                                          x \in S}

\* What JSON.parse can return: a list of records (possibly with null
\* elements), or a value that is not a list.
Array(items) == [t |-> "array", items |-> items]
NotArray(t) == [t |-> t, items |-> <<>>]
NoValue == [t |-> "unset", items |-> <<>>]

Documents ==
    {Array(l) : l \in ListsUpTo(PageServices \cup {NullService}, MaxServices)}
    \cup {NotArray("object"), NotArray("null"), NotArray("number"), NotArray("string")}

\* The file at summaryPath: unreadable (missing), not JSON, or the text of a
\* document.
SummaryFiles ==
    {[readable |-> FALSE, json |-> FALSE, doc |-> NoValue],
     [readable |-> TRUE, json |-> FALSE, doc |-> NoValue]}
    \cup {[readable |-> TRUE, json |-> TRUE, doc |-> d] : d \in Documents}

-----------------------------------------------------------------------------
(***************************************************************************)
(* State.                                                                  *)
(*   value, number, again, class, label: one call of percentToNumber, a   *)
(*     second call on its result, statusClass of the result, statusLabel.  *)
(*   service, card: one call of renderService.                             *)
(*   the rest: one run of main().                                          *)
(***************************************************************************)
VARIABLES value, number, again, class, label,
          service, card,
          pc, summaryFile, contents, services, html,
          dirExists, outputFile, stdout, stderr, exitCode

fnVars   == <<value, number, again, class, label>>
cardVars == <<service, card>>
runVars  == <<pc, summaryFile, contents, services, html,
              dirExists, outputFile, stdout, stderr, exitCode>>
vars     == <<fnVars, cardVars, runVars>>

FnIdle ==
    /\ value = Unset /\ number = Unset /\ again = Unset
    /\ class = "unset" /\ label = "unset"
CardIdle == service = NullService /\ card = <<>>
RunIdle ==
    /\ pc = "idle"
    /\ summaryFile = [readable |-> FALSE, json |-> FALSE, doc |-> NoValue]
    /\ contents = [json |-> FALSE, doc |-> NoValue]
    /\ services = NoValue /\ html = <<>>
    /\ dirExists = FALSE /\ outputFile = [state |-> "absent", cards |-> <<>>]
    /\ stdout = <<>> /\ stderr = "" /\ exitCode = 0 - 1

-----------------------------------------------------------------------------
(***************************************************************************)
(* The pure helpers, applied to one value.                                 *)
(***************************************************************************)
InitFn ==
    /\ value \in Values
    /\ number = Unset /\ again = Unset /\ class = "unset" /\ label = "unset"
    /\ CardIdle /\ RunIdle

CallPercentToNumber ==
    /\ number = Unset
    /\ number' = percentToNumber(value)
    /\ UNCHANGED <<value, again, class, label, cardVars, runVars>>

\* statusClass(uptimeDay), as on line 50.
CallStatusClass ==
    /\ number # Unset /\ class = "unset"
    /\ class' = statusClass(number)
    /\ UNCHANGED <<value, number, again, label, cardVars, runVars>>

\* percentToNumber applied to its own result.
CallPercentToNumberAgain ==
    /\ number # Unset /\ class # "unset" /\ again = Unset
    /\ again' = percentToNumber(number)
    /\ UNCHANGED <<value, number, class, label, cardVars, runVars>>

CallStatusLabel ==
    /\ label = "unset"
    /\ label' = statusLabel(value)
    /\ UNCHANGED <<value, number, again, class, cardVars, runVars>>

NextFn ==
    \/ CallPercentToNumber
    \/ CallStatusClass
    \/ CallPercentToNumberAgain
    \/ CallStatusLabel

SpecFn == InitFn /\ [][NextFn]_vars

-----------------------------------------------------------------------------
(***************************************************************************)
(* renderService, applied to one record.                                   *)
(***************************************************************************)
InitCard ==
    /\ service \in CardServices
    /\ card = <<>>
    /\ FnIdle /\ RunIdle

CallRenderService ==
    /\ card = <<>>
    /\ ~Throws(service)
    /\ card' = <<renderService(service)>>
    /\ UNCHANGED <<service, fnVars, runVars>>

NextCard == CallRenderService

SpecCard == InitCard /\ [][NextCard]_vars

-----------------------------------------------------------------------------
(***************************************************************************)
(* One run of main(): loadSummary, buildPage, console.log.  An uncaught    *)
(* exception ends the process with exit code 1.                            *)
(***************************************************************************)
\* The map with the cards collected in reverse order.
Cards_Reversed(items) ==
    [i \in 1..Len(items) |-> renderService(items[Len(items) + 1 - i])]

\* services.map(renderService): one card per element, in order.
Cards(items) == [i \in 1..Len(items) |-> renderService(items[i])]

\* services.map(...) throws when services is not a list (no map method) or
\* when renderService reads a property of a null element.
MapThrows(v) ==
    \/ v.t # "array"
    \/ \E i \in 1..Len(v.items) : Throws(v.items[i])

Absent == [state |-> "absent", cards |-> <<>>]
\* The page of an earlier run.
Old == [state |-> "old", cards |-> <<>>]
\* What a failed write can leave behind after the file was opened.
Truncated == [state |-> "truncated", cards |-> <<>>]
Page(cards) == [state |-> "page", cards |-> cards]

Wrote == "Wrote outputPath"

Init ==
    /\ pc = "readFileSync"
    /\ summaryFile \in SummaryFiles
    /\ contents = [json |-> FALSE, doc |-> NoValue]
    /\ services = NoValue
    /\ html = <<>>
    /\ dirExists \in BOOLEAN
    /\ outputFile \in {Absent, Old}
    /\ outputFile = Old => dirExists
    /\ stdout = <<>>
    /\ stderr = ""
    /\ exitCode = 0 - 1
    /\ FnIdle /\ CardIdle

\* An exception nobody catches: node prints it and exits with code 1.
Uncaught(error) ==
    /\ pc' = "exit"
    /\ stderr' = error
    /\ exitCode' = 1

ReadFileOk ==
    /\ pc = "readFileSync"
    /\ summaryFile.readable
    /\ contents' = [json |-> summaryFile.json, doc |-> summaryFile.doc]
    /\ pc' = "JSON.parse"
    /\ UNCHANGED <<summaryFile, services, html, dirExists, outputFile, stdout, stderr,
                   exitCode, fnVars, cardVars>>

ReadFileThrows ==
    /\ pc = "readFileSync"
    /\ ~summaryFile.readable
    /\ Uncaught("ENOENT")
    /\ UNCHANGED <<summaryFile, contents, services, html, dirExists, outputFile,
                   stdout, fnVars, cardVars>>

ParseOk ==
    /\ pc = "JSON.parse"
    /\ contents.json
    /\ services' = contents.doc
    /\ pc' = "map"
    /\ UNCHANGED <<summaryFile, contents, html, dirExists, outputFile, stdout, stderr,
                   exitCode, fnVars, cardVars>>

\* JSON.parse with the SyntaxError caught and an empty list returned.
ParseThrows_Caught ==
    /\ pc = "JSON.parse"
    /\ ~contents.json
    /\ services' = Array(<<>>)
    /\ pc' = "map"
    /\ UNCHANGED <<summaryFile, contents, html, dirExists, outputFile, stdout, stderr,
                   exitCode, fnVars, cardVars>>

ParseThrows ==
    /\ pc = "JSON.parse"
    /\ ~contents.json
    /\ Uncaught("SyntaxError")
    /\ UNCHANGED <<summaryFile, contents, services, html, dirExists, outputFile,
                   stdout, fnVars, cardVars>>

\* The template literal of buildPage, evaluated before any file operation.
MapOk ==
    /\ pc = "map"
    /\ ~MapThrows(services)
    /\ html' = Cards(services.items)
    /\ pc' = "mkdirSync"
    /\ UNCHANGED <<summaryFile, contents, services, dirExists, outputFile,
                   stdout, stderr, exitCode, fnVars, cardVars>>

MapThrowsTypeError ==
    /\ pc = "map"
    /\ MapThrows(services)
    /\ Uncaught("TypeError")
    /\ UNCHANGED <<summaryFile, contents, services, html, dirExists, outputFile,
                   stdout, fnVars, cardVars>>

\* mkdirSync(outputDir, {recursive: true}): no error when the directory exists.
MkdirOk ==
    /\ pc = "mkdirSync"
    /\ dirExists' = TRUE
    /\ pc' = "writeFileSync"
    /\ UNCHANGED <<summaryFile, contents, services, html, outputFile, stdout, stderr,
                   exitCode, fnVars, cardVars>>

\* The directory cannot be created (permissions, a file in the way).
MkdirThrows ==
    /\ pc = "mkdirSync"
    /\ ~dirExists
    /\ Uncaught("EACCES")
    /\ UNCHANGED <<summaryFile, contents, services, html, dirExists, outputFile,
                   stdout, fnVars, cardVars>>

WriteFileOk ==
    /\ pc = "writeFileSync"
    /\ outputFile' = Page(html)
    /\ pc' = "console.log"
    /\ UNCHANGED <<summaryFile, contents, services, html, dirExists, stdout, stderr,
                   exitCode, fnVars, cardVars>>

\* writeFileSync with the error caught and main carrying on.
WriteFileThrows_Caught ==
    /\ pc = "writeFileSync"
    /\ outputFile' \in {outputFile, Truncated}
    /\ pc' = "console.log"
    /\ UNCHANGED <<summaryFile, contents, services, html, dirExists, stdout, stderr,
                   exitCode, fnVars, cardVars>>

\* The write fails: at open (the file is untouched) or after the file was
\* opened and truncated (disk full).
WriteFileThrows ==
    /\ pc = "writeFileSync"
    /\ outputFile' \in {outputFile, Truncated}
    /\ Uncaught("ENOSPC")
    /\ UNCHANGED <<summaryFile, contents, services, html, dirExists, stdout,
                   fnVars, cardVars>>

ConsoleLog ==
    /\ pc = "console.log"
    /\ stdout' = Append(stdout, Wrote)
    /\ pc' = "return"
    /\ UNCHANGED <<summaryFile, contents, services, html, dirExists, outputFile,
                   stderr, exitCode, fnVars, cardVars>>

\* main() returned: the process ends with exit code 0.
Exit ==
    /\ pc = "return"
    /\ pc' = "exit"
    /\ exitCode' = 0
    /\ UNCHANGED <<summaryFile, contents, services, html, dirExists, outputFile,
                   stdout, stderr, fnVars, cardVars>>

Next ==
    \/ ReadFileOk
    \/ ReadFileThrows
    \/ ParseOk
    \/ ParseThrows
    \/ MapOk
    \/ MapThrowsTypeError
    \/ MkdirOk
    \/ MkdirThrows
    \/ WriteFileOk
    \/ WriteFileThrows
    \/ ConsoleLog
    \/ Exit

Spec == Init /\ [][Next]_vars

-----------------------------------------------------------------------------
(***************************************************************************)
(* Properties of the pure helpers (SpecFn).                                *)
(***************************************************************************)
InRange(v) == v.t = "number" /\ 0 <= v.n /\ v.n <= 100 * Scale

\* A trailing "%" removed, as section 4.1 of the specification words it.
StripTrailingPercent(s) ==
    IF s # <<>> /\ s[Len(s)] = "%" THEN SubSeq(s, 1, Len(s) - 1) ELSE s

\* The normalizer as the specification describes it, for the kinds of value
\* it names (null, undefined, numbers, strings).
NormalizeAsSpecified(v) ==
    IF v \in {Null, Undef, Num(0), Str(<<>>)} THEN Num(0)
    ELSE IF v.t = "number" THEN v
    ELSE OrZero(StringToNumber(StripTrailingPercent(v.s)))

\* C1: percentToNumber returns 0 for null, undefined, 0 and "", a number
\* unchanged, and for a string the decimal number left after stripping a
\* trailing "%", or 0 when that remainder is not a number.
C1_TrailingPercent ==
    (number # Unset /\ value.t \in {"null", "undefined", "number", "string"})
        => number = NormalizeAsSpecified(value)

\* C2: statusClass is "ok" exactly from 99 up, "warn" exactly in [95, 99),
\* "down" exactly below 95; 99 is ok, 98.99 warn, 95 warn, 94.99 down.
C2_Thresholds ==
    class # "unset" =>
        /\ class \in {"ok", "warn", "down"}
        /\ class = "ok" <=> (number.t = "number" /\ number.n >= 99 * Scale)
        /\ class = "warn" <=> (number.t = "number" /\ number.n >= 95 * Scale
                                /\ number.n < 99 * Scale)
        /\ class = "down" <=> (number.t = "number" /\ number.n < 95 * Scale)
        /\ number = Dec(99, 0) => class = "ok"
        /\ number = Dec(98, 99) => class = "warn"
        /\ number = Dec(95, 0) => class = "warn"
        /\ number = Dec(94, 99) => class = "down"

C2_Witness ==
    /\ value = Dec(98, 99) /\ number = Dec(98, 99) /\ class = "warn"

\* C7 as stated: every result of percentToNumber lies in [0, 100].
C7_AlwaysInRange == number # Unset => InRange(number)

\* What the text of a value denotes: the number itself, or the number its
\* string reads as once the "%" is removed (NaN when it reads as none).
Denoted(v) ==
    IF v.t = "number" THEN v
    ELSE IF v.t = "string" THEN StringToNumber(Replace(v.s, "%"))
    ELSE NaN

\* C7 as amended: percentToNumber never returns NaN and does not clamp: a
\* number is returned unchanged, so the result lies in [0, 100] exactly
\* when the value does not denote a number outside [0, 100].
C7_InRangeUnlessDenotedOutside ==
    number # Unset =>
        /\ number.t = "number"
        /\ value.t = "number" => number = value
        /\ InRange(number) <=> (Denoted(value).t = "nan" \/ InRange(Denoted(value)))

C7_Witness ==
    /\ value = Str(<<"-", "5", "%">>) /\ number = Num(0 - 5 * Scale)

\* C9: statusLabel has exactly three results: "up" gives the affirmative
\* label, "down" the negative one, and every other value (another string,
\* null, a missing field) the one degraded label.
C9_ThreeLabels ==
    label # "unset" =>
        /\ label \in {"UP", "DOWN", "DEGRADED"}
        /\ label = "UP" <=> value = Str(<<"u", "p">>)
        /\ label = "DOWN" <=> value = Str(<<"d", "o", "w", "n">>)
        /\ label = "DEGRADED" <=>
               value \notin {Str(<<"u", "p">>), Str(<<"d", "o", "w", "n">>)}

C9_Witness ==
    /\ value = Str(<<"U", "P">>) /\ label = "DEGRADED"

\* C10: percentToNumber applied to its own result returns that result.
C10_Idempotent == again # Unset => again = number

C10_Witness ==
    /\ value = Str(<<"9", ".", "5", "%">>) /\ number = Dec(9, 50) /\ again = Dec(9, 50)

-----------------------------------------------------------------------------
(***************************************************************************)
(* Properties of renderService (SpecCard).                                 *)
(***************************************************************************)
\* The severity of a normalized percentage, from the thresholds of 4.2.
Severity(v) ==
    IF v.n >= 99 * Scale THEN "ok" ELSE IF v.n >= 95 * Scale THEN "warn" ELSE "down"

\* C3: renderService produces exactly four segments, 24h, 7d, 30d, 365d in
\* this order, holding the normalized uptimeDay, uptimeWeek, uptimeMonth and
\* uptimeYear; each segment's severity is that of its own value, and the
\* pill's severity is that of the normalized uptimeDay alone.
C3_FourSegments ==
    card # <<>> =>
        LET c == card[1]
            fields == <<service.uptimeDay, service.uptimeWeek,
                        service.uptimeMonth, service.uptimeYear>>
            labels == <<"24h", "7d", "30d", "365d">>
        IN  /\ Len(c.bars) = 4
            /\ \A i \in 1..4 :
                 /\ c.bars[i].label = labels[i]
                 /\ c.bars[i].value = percentToNumber(fields[i])
                 /\ c.bars[i].class = Severity(c.bars[i].value)
            /\ c.class = Severity(percentToNumber(service.uptimeDay))

\* The pill is "ok" from uptimeDay while another window is down and the
\* status field says down.
C3_Witness ==
    /\ card # <<>>
    /\ card[1].class = "ok"
    /\ card[1].bars[2].class = "down"
    /\ card[1].bars[3].class = "warn"
    /\ card[1].pill = "DOWN"

-----------------------------------------------------------------------------
(***************************************************************************)
(* Properties of a run of main() (Spec).                                   *)
(***************************************************************************)
\* The input document cannot be read, is not JSON, or is not a list.
InputUnavailable ==
    \/ ~summaryFile.readable
    \/ ~summaryFile.json
    \/ summaryFile.doc.t # "array"

\* The input is a list of records (no null element).
ListOfRecords ==
    /\ summaryFile.readable /\ summaryFile.json
    /\ summaryFile.doc.t = "array"
    /\ \A i \in 1..Len(summaryFile.doc.items) : summaryFile.doc.items[i].t = "object"

\* C4: the page holds exactly one card per input record, the i-th card
\* being the rendering of the i-th record; for the empty list the page has
\* no card and the rendering does not fail.
C4_CardsInInputOrder ==
    /\ outputFile.state = "page" =>
         /\ Len(outputFile.cards) = Len(summaryFile.doc.items)
         /\ \A i \in 1..Len(outputFile.cards) :
              outputFile.cards[i] = renderService(summaryFile.doc.items[i])
    /\ (summaryFile.json /\ summaryFile.doc = Array(<<>>)) =>
         /\ stderr \notin {"SyntaxError", "TypeError"}
         /\ outputFile.state = "page" => outputFile.cards = <<>>

\* Three cards of three different records, written in input order.
C4_Witness ==
    /\ outputFile.state = "page"
    /\ Len(outputFile.cards) = 3
    /\ outputFile.cards[1].title = <<"B">>
    /\ outputFile.cards[2].title = <<"A">>
    /\ outputFile.cards[3].title = <<"C">>

\* C5: when the input cannot be read, is not JSON or is not a list, no step
\* of the run creates the output directory, touches the output file or
\* prints the confirmation line, and the run ends with a non-zero exit code.
C5_NoOutputOnBadInput ==
    [][InputUnavailable =>
          /\ dirExists' = dirExists
          /\ outputFile' = outputFile
          /\ stdout' = <<>>
          /\ pc' \notin {"mkdirSync", "writeFileSync", "console.log", "return"}
          /\ pc' = "exit" => exitCode' # 0]_vars

\* A document that is an object, not a list: the run has ended in failure
\* with the earlier page still in place.
C5_Witness ==
    /\ summaryFile.json /\ summaryFile.doc.t = "object"
    /\ pc = "exit" /\ exitCode = 1 /\ stderr = "TypeError"
    /\ outputFile = Old /\ stdout = <<>>

\* Title, pill, four segments with a printable value, and the meta line
\* (a missing display field prints as "undefined").
CompleteCard(c, item) ==
    /\ c.title = ToString(item.name)
    /\ c.class \in {"ok", "warn", "down"}
    /\ c.pill \in {"UP", "DOWN", "DEGRADED"}
    /\ Len(c.bars) = 4
    /\ \A i \in 1..4 :
         /\ c.bars[i].value.t = "number"
         /\ c.bars[i].class \in {"ok", "warn", "down"}
         /\ ~c.bars[i].text.nan
    /\ c.target = ToString(item.url)
    /\ c.uptime = ToString(item.uptime)

\* C6: for a list of records, a missing field, a malformed percentage or an
\* unknown status never aborts the run (only the directory creation or the
\* write can fail), and the page written holds one complete card per record.
C6_RecordProblemsNotFatal ==
    ListOfRecords =>
        /\ stderr \in {"", "EACCES", "ENOSPC"}
        /\ pc \notin {"readFileSync", "JSON.parse", "map"} =>
             /\ Len(html) = Len(summaryFile.doc.items)
             /\ \A i \in 1..Len(html) :
                  CompleteCard(html[i], summaryFile.doc.items[i])
        /\ outputFile.state = "page" =>
             /\ Len(outputFile.cards) = Len(summaryFile.doc.items)
             /\ \A i \in 1..Len(outputFile.cards) :
                  CompleteCard(outputFile.cards[i], summaryFile.doc.items[i])

\* A page with the card of a record without any field and the card of a
\* record with malformed percentages and an unknown status.
C6_Witness ==
    /\ outputFile.state = "page" /\ exitCode = 0
    /\ Len(outputFile.cards) = 2
    /\ summaryFile.doc.items[1].uptimeDay = Undef
    /\ summaryFile.doc.items[1].status = Undef
    /\ summaryFile.doc.items[2].uptimeDay = Str(<<"a">>)
    /\ outputFile.cards[2].pill = "DEGRADED"

\* C8: the run exits with 0 exactly when the read, the parse, the rendering,
\* the directory creation and the write all succeeded, and with a non-zero
\* code when one of them failed; the confirmation line is printed in exactly
\* the successful runs, after the file was written, and the file is written
\* only once the directory exists.
C8_ExitCodeAndOrder ==
    /\ [](pc = "exit" =>
            /\ exitCode = 0 <=> stderr = ""
            /\ exitCode = 0 <=> stdout = <<Wrote>>
            /\ exitCode # 0 => stdout = <<>>
            /\ exitCode = 0 =>
                 /\ ~InputUnavailable
                 /\ ~MapThrows(summaryFile.doc)
                 /\ dirExists
                 /\ outputFile = Page(Cards(summaryFile.doc.items)))
    /\ [][/\ (pc' = "exit" /\ pc # "return") => exitCode' # 0
          /\ pc = "return" => exitCode' = 0
          /\ stdout' # stdout => (outputFile = Page(html) /\ outputFile' = outputFile)
          /\ outputFile' # outputFile => (dirExists /\ pc = "writeFileSync")]_vars

C8_Witness ==
    /\ pc = "exit" /\ exitCode = 0 /\ stdout = <<Wrote>>
    /\ Len(outputFile.cards) = 2

=============================================================================
